---- MODULE Spec2Model ----
(***************************************************************************)
(* Relay bot (src/bot.py): the persisted document with its three           *)
(* collections, the two gauges, the operator's chat and the handlers of    *)
(* the dispatcher, each cut at its awaits of transport calls.              *)
(*                                                                         *)
(* Text is a sequence of tokens.  The delimiters the code formats and      *)
(* splits on are made of the tokens " ", "(ID:" and ")" so that "(ID: "    *)
(* is <<"(ID:", " ">> and " (ID:" is <<" ", "(ID:">>, as in the source.    *)
(* An optional text (Message.text) is [some |-> BOOLEAN, s |-> tokens].    *)
(***************************************************************************)
EXTENDS Integers, Sequences, FiniteSets, TLC

VARIABLES
    file,            \* DATA_FILE: [exists, doc], doc the JSON document
    ACTIVE_DIALOGS,  \* gauge bot_active_dialogs
    BLOCKED_USERS,   \* gauge bot_blocked_users
    adminChat,       \* the operator's chat: message id -> message
    nextId,          \* next message id of the operator's chat
    tasks,           \* handlers suspended at an await
    blockDone,       \* history: users whose block_user completed, until unblocked
    ev               \* what the last step did (handler, outcome, transport calls)

vars == <<file, ACTIVE_DIALOGS, BLOCKED_USERS, adminChat, nextId, tasks, blockDone, ev>>

(***************************************************************************)
(* Bounds and input sets                                                   *)
(***************************************************************************)
\* message ids the operator's chat may hand out (forwards and replies)
MaxHandle == 2
\* need_help starts only while the active-dialog gauge is below this
MaxGauge == 2
\* handlers suspended at an await at the same time
MaxTasks == 2

ADMIN_ID == 9
Users == {1, 2}

Digit == {"0", "1", "2", "3", "4", "5", "6", "7", "8", "9"}

\* display names (from_user.full_name): free text chosen by the user
PlainNames == { <<"Ann">> }
\* with a name that holds the text "(ID: 2)"
Names == PlainNames \cup { <<"Bob", " ", "(ID:", " ", "2", ")">> }

\* product ids carried by the "need_help_<id>" buttons of the product cards
Products == { <<"7">> }

None == [some |-> FALSE, s |-> <<>>]
Some(s) == [some |-> TRUE, s |-> s]

\* What a user may send (Message.text is Optional[str]): a text, a command,
\* a photo, a document, other content (sticker, voice, ...) and content
\* with an empty text, the one content without text or photo that the
\* filter of forward_to_admin lets through.
TextPayload == [text |-> Some(<<"hello">>), photo |-> FALSE, document |-> FALSE]
CommandPayload == [text |-> Some(<<"/", "info">>), photo |-> FALSE, document |-> FALSE]
PhotoPayload == [text |-> None, photo |-> TRUE, document |-> FALSE]
DocumentPayload == [text |-> None, photo |-> FALSE, document |-> TRUE]
OtherPayload == [text |-> None, photo |-> FALSE, document |-> FALSE]
EmptyTextPayload == [text |-> Some(<<>>), photo |-> FALSE, document |-> FALSE]

Payloads == { TextPayload, CommandPayload, PhotoPayload, DocumentPayload, OtherPayload,
              EmptyTextPayload }

\* what the operator writes in a reply
ReplyBodies == { Some(<<"hi">>) }

(***************************************************************************)
(* Python string operations on token sequences                             *)
(***************************************************************************)
MatchAt(s, d, i) ==
    /\ i >= 1
    /\ i + Len(d) - 1 <= Len(s)
    /\ SubSeq(s, i, i + Len(d) - 1) = d

\* index of the first occurrence of d in s, 0 if none (str.find + 1)
FirstIdx(s, d) ==
    LET hits == { i \in 1..Len(s) : MatchAt(s, d, i) }
    IN  IF hits = {} THEN 0 ELSE CHOOSE i \in hits : \A j \in hits : i <= j

StartsWith(s, d) == MatchAt(s, d, 1)

\* s.split(d)[0]
Split0(s, d) ==
    IF FirstIdx(s, d) = 0 THEN s ELSE SubSeq(s, 1, FirstIdx(s, d) - 1)

\* what follows the first occurrence of d in s
AfterFirst(s, d) == SubSeq(s, FirstIdx(s, d) + Len(d), Len(s))

\* s.split(d)[1]: [ok |-> FALSE] stands for the IndexError
Split1(s, d) ==
    IF FirstIdx(s, d) = 0
    THEN [ok |-> FALSE, s |-> <<>>]
    ELSE [ok |-> TRUE, s |-> Split0(AfterFirst(s, d), d)]

\* s.replace(d, "") for an s that holds d at most once, at its start
RemovePrefix(s, d) == IF StartsWith(s, d) THEN SubSeq(s, Len(d) + 1, Len(s)) ELSE s

DigitVal(c) ==
    CASE c = "0" -> 0 [] c = "1" -> 1 [] c = "2" -> 2 [] c = "3" -> 3
      [] c = "4" -> 4 [] c = "5" -> 5 [] c = "6" -> 6 [] c = "7" -> 7
      [] c = "8" -> 8 [] c = "9" -> 9

DigitChar(n) ==
    CASE n = 0 -> "0" [] n = 1 -> "1" [] n = 2 -> "2" [] n = 3 -> "3"
      [] n = 4 -> "4" [] n = 5 -> "5" [] n = 6 -> "6" [] n = 7 -> "7"
      [] n = 8 -> "8" [] n = 9 -> "9"

\* str(n) of a non-negative integer
RECURSIVE StrOfInt(_)
StrOfInt(n) == IF n < 10 THEN <<DigitChar(n)>> ELSE StrOfInt(n \div 10) \o <<DigitChar(n % 10)>>

RECURSIVE StripLeft(_)
StripLeft(s) == IF s # <<>> /\ Head(s) = " " THEN StripLeft(Tail(s)) ELSE s

RECURSIVE StripRight(_)
StripRight(s) ==
    IF s # <<>> /\ s[Len(s)] = " " THEN StripRight(SubSeq(s, 1, Len(s) - 1)) ELSE s

RECURSIVE DigitsVal(_)
DigitsVal(s) ==
    IF s = <<>> THEN 0 ELSE 10 * DigitsVal(SubSeq(s, 1, Len(s) - 1)) + DigitVal(s[Len(s)])

\* int(s): surrounding blanks are stripped; [ok |-> FALSE] is the ValueError
IntOfStr(s) ==
    LET t == StripRight(StripLeft(s))
    IN  IF t # <<>> /\ \A i \in 1..Len(t) : t[i] \in Digit
        THEN [ok |-> TRUE, n |-> DigitsVal(t)]
        ELSE [ok |-> FALSE, n |-> 0]

(***************************************************************************)
(* The persisted document.  A dict key is [ty, n]: the int n or the str    *)
(* of n.  json.dump writes every key as a str; list items stay ints.       *)
(***************************************************************************)
IntKey(n) == [ty |-> "int", n |-> n]
StrKey(n) == [ty |-> "str", n |-> n]

Put(f, k, v) == [x \in DOMAIN f \cup {k} |-> IF x = k THEN v ELSE f[x]]
Del(f, k) == [x \in DOMAIN f \ {k} |-> f[x]]
NoEntries == [x \in {} |-> 0]

EmptyDoc == [active_dialogs |-> NoEntries, blocked_users |-> <<>>,
             dialog_messages |-> NoEntries]

JsonKeys(d) ==
    [k \in { StrKey(x.n) : x \in DOMAIN d } |->
        IF k \in DOMAIN d THEN d[k] ELSE d[IntKey(k.n)]]

load_data(f) == IF f.exists THEN f.doc ELSE EmptyDoc

save_data(data) ==
    [exists |-> TRUE,
     doc |-> [active_dialogs |-> JsonKeys(data.active_dialogs),
              blocked_users |-> data.blocked_users,
              dialog_messages |-> JsonKeys(data.dialog_messages)]]

get_active_dialogs(f) == load_data(f).active_dialogs

get_blocked_users(f) ==
    { load_data(f).blocked_users[i] : i \in 1..Len(load_data(f).blocked_users) }

get_dialog_messages(f, user_id) ==
    IF StrKey(user_id) \in DOMAIN load_data(f).dialog_messages
    THEN load_data(f).dialog_messages[StrKey(user_id)]
    ELSE <<>>

InList(x, l) == \E i \in 1..Len(l) : l[i] = x

\* list.remove(x): drops the first occurrence
ListRemove(l, x) ==
    LET i == CHOOSE j \in 1..Len(l) : l[j] = x /\ \A k \in 1..(j - 1) : l[k] # x
    IN  SubSeq(l, 1, i - 1) \o SubSeq(l, i + 1, Len(l))

\* A store operation maps w = [file, ACTIVE_DIALOGS, BLOCKED_USERS] to its
\* successor; it runs between two awaits, so it is one step.
World == [file |-> file, ACTIVE_DIALOGS |-> ACTIVE_DIALOGS, BLOCKED_USERS |-> BLOCKED_USERS]

add_active_dialog(w, user_id, product_id) ==
    LET data == load_data(w.file)
        inc  == IntKey(user_id) \notin DOMAIN data.active_dialogs
        new  == [data EXCEPT !.active_dialogs = Put(@, StrKey(user_id), product_id)]
    IN  [w EXCEPT !.ACTIVE_DIALOGS = IF inc THEN @ + 1 ELSE @,
                  !.file = save_data(new)]

remove_active_dialog(w, user_id) ==
    LET data == load_data(w.file)
    IN  IF StrKey(user_id) \in DOMAIN data.active_dialogs
        THEN [w EXCEPT !.ACTIVE_DIALOGS = @ - 1,
                       !.file = save_data([data EXCEPT !.active_dialogs =
                                               Del(@, StrKey(user_id))])]
        ELSE w

\* variant without the membership test of line 128
add_blocked_user_unchecked(w, user_id) ==
    LET data == load_data(w.file)
    IN  [w EXCEPT !.BLOCKED_USERS = @ + 1,
                  !.file = save_data([data EXCEPT !.blocked_users = Append(@, user_id)])]

add_blocked_user(w, user_id) ==
    LET data == load_data(w.file)
    IN  IF ~InList(user_id, data.blocked_users)
        THEN [w EXCEPT !.BLOCKED_USERS = @ + 1,
                       !.file = save_data([data EXCEPT !.blocked_users =
                                               Append(@, user_id)])]
        ELSE w

\* variant that leaves the gauge as it is
remove_blocked_user_silent(w, user_id) ==
    LET data == load_data(w.file)
    IN  IF InList(user_id, data.blocked_users)
        THEN [w EXCEPT !.file = save_data([data EXCEPT !.blocked_users =
                                               ListRemove(@, user_id)])]
        ELSE w

remove_blocked_user(w, user_id) ==
    LET data == load_data(w.file)
    IN  IF InList(user_id, data.blocked_users)
        THEN [w EXCEPT !.BLOCKED_USERS = @ - 1,
                       !.file = save_data([data EXCEPT !.blocked_users =
                                               ListRemove(@, user_id)])]
        ELSE w

\* variant without the membership test of line 148
add_dialog_message_unchecked(w, user_id, message_id) ==
    LET data == load_data(w.file)
        cur  == IF StrKey(user_id) \in DOMAIN data.dialog_messages
                THEN data.dialog_messages[StrKey(user_id)] ELSE <<>>
    IN  [w EXCEPT !.file = save_data([data EXCEPT !.dialog_messages =
                               Put(@, StrKey(user_id), Append(cur, message_id))])]

add_dialog_message(w, user_id, message_id) ==
    LET data == load_data(w.file)
        cur  == IF StrKey(user_id) \in DOMAIN data.dialog_messages
                THEN data.dialog_messages[StrKey(user_id)] ELSE <<>>
    IN  IF ~InList(message_id, cur)
        THEN [w EXCEPT !.file = save_data([data EXCEPT !.dialog_messages =
                                   Put(@, StrKey(user_id), Append(cur, message_id))])]
        ELSE w

\* variant that leaves the record in place
remove_dialog_messages_kept(w, user_id) == w

remove_dialog_messages(w, user_id) ==
    LET data == load_data(w.file)
    IN  IF StrKey(user_id) \in DOMAIN data.dialog_messages
        THEN [w EXCEPT !.file = save_data([data EXCEPT !.dialog_messages =
                                               Del(@, StrKey(user_id))])]
        ELSE w

(***************************************************************************)
(* Message texts.  The Russian literals of the source are written in       *)
(* Latin letters; each literal is one token.                               *)
(***************************************************************************)
MsgFrom == "Soobshchenie ot "
MsgProduct == "\nID produkta: "
MsgBreak == "\n\n"
NoticeUser == "Polzovatel "
NoticeTail == " otpravil nepodderzhivaemyi tip media.\nProdukt ID: "
Unknown == <<"Neizvestno">>
AskText == <<"Zadavaite svoi voprosy">>
EndText == <<"Esli u vas est eshche voprosy, nazhmite 'Nuzhna pomoshch'.">>

\* line 230: the head of every forwarded text and caption
AdminMessage(user_name, user_id, product_id) ==
    <<MsgFrom>> \o user_name \o <<" ", "(ID:", " ">> \o StrOfInt(user_id)
        \o <<")", MsgProduct>> \o product_id \o <<MsgBreak>>

\* line 281: the notice sent for content that is no text, photo or document
UnsupportedNotice(user_name, user_id, product_id) ==
    <<NoticeUser>> \o user_name \o <<" ", "(ID:", " ">> \o StrOfInt(user_id)
        \o <<")", NoticeTail>> \o product_id

\* callback data of the buttons
HelpData(product_id) == <<"need_help", "_">> \o product_id
EndButtonData == <<"need_help">>

\* a message of the operator's chat: its text (None for a photo or a
\* document, whose head is in the caption); `for` is history: the user a
\* forward was made for (0 for the operator's own messages)
ChatMsg(kind, text, for) == [kind |-> kind, text |-> text, for |-> for]

(***************************************************************************)
(* Handlers.  A handler that awaits a transport call is cut there: the     *)
(* part up to the await is one step, the part after it another, and the    *)
(* handler sits in `tasks` in between.  Consecutive awaits with no store   *)
(* access between them are one cut.                                        *)
(***************************************************************************)
Task(h, pc, user_id) ==
    [h |-> h, pc |-> pc, user_id |-> user_id, product_id |-> <<>>, kind |-> "none",
     handle |-> 0, todo |-> <<>>, att |-> <<>>, snap |-> <<>>]

Pre(f, u) ==
    [blocked |-> u \in get_blocked_users(f),
     session |-> StrKey(u) \in DOMAIN get_active_dialogs(f)]

Ev(h, status, user_id) ==
    [h |-> h, status |-> status, user_id |-> user_id, pre |-> Pre(file, user_id),
     sent |-> 0, toUser |-> {}, handle |-> 0, kind |-> "none", src |-> 0,
     att |-> <<>>, snap |-> <<>>, answer |-> ""]

SetWorld(w) ==
    /\ file' = w.file
    /\ ACTIVE_DIALOGS' = w.ACTIVE_DIALOGS
    /\ BLOCKED_USERS' = w.BLOCKED_USERS

CanSuspend == Cardinality(tasks) < MaxTasks

Init ==
    /\ file = [exists |-> FALSE, doc |-> EmptyDoc]
    /\ ACTIVE_DIALOGS = 0
    /\ BLOCKED_USERS = 0
    /\ adminChat = NoEntries
    /\ nextId = 1
    /\ tasks = {}
    /\ blockDone = {}
    /\ ev = [h |-> "none", status |-> "none", user_id |-> 0,
             pre |-> [blocked |-> FALSE, session |-> FALSE],
             sent |-> 0, toUser |-> {}, handle |-> 0, kind |-> "none", src |-> 0,
             att |-> <<>>, snap |-> <<>>, answer |-> ""]

\* ---- need_help (lines 196-213) ------------------------------------------
\* line 196: the callback filter
need_help_filter(data) == StartsWith(data, <<"need_help", "_">>)

\* variant without the test of line 203
need_help_rejects_never(f, user_id) == FALSE

\* line 203: the rejection test
need_help_rejects(f, user_id) == user_id \in get_blocked_users(f) \/ user_id = ADMIN_ID

\* lines 315-318: the control end_dialog sends; the user presses it right
\* after receiving it
HoldsEndButton(user_id) ==
    ev.h = "end_dialog" /\ ev.status = "done" /\ ev.user_id = user_id

\* history: which control was pressed, the one of a product card (line 188)
\* or the one end_dialog sends (line 316)
Control(data) == IF data = EndButtonData THEN "offered" ELSE "card"

\* lines 196-208: filter, rejection test, answer and the message to the user
need_help(user_id, data) ==
    /\ CanSuspend
    /\ ACTIVE_DIALOGS < MaxGauge
    /\ data = EndButtonData => HoldsEndButton(user_id)
    /\ UNCHANGED <<file, ACTIVE_DIALOGS, BLOCKED_USERS, adminChat, nextId, blockDone>>
    /\ IF ~need_help_filter(data)
       THEN /\ ev' = [Ev("need_help", "unhandled", user_id) EXCEPT !.kind = Control(data)]
            /\ UNCHANGED tasks
       ELSE IF need_help_rejects(file, user_id)
       THEN /\ ev' = [Ev("need_help", "return", user_id) EXCEPT !.kind = Control(data)]
            /\ UNCHANGED tasks
       ELSE /\ ev' = [Ev("need_help", "await", user_id) EXCEPT
                         !.kind = Control(data),
                         !.toUser = {[to |-> user_id, text |-> AskText]}]
            /\ tasks' = tasks \cup
                   {[Task("need_help", "add", user_id) EXCEPT
                        !.product_id = RemovePrefix(data, <<"need_help", "_">>)]}

\* lines 210-213: after the awaits
need_help_add(t) ==
    /\ t \in tasks /\ t.h = "need_help"
    /\ SetWorld(IF t.user_id # ADMIN_ID
                THEN add_active_dialog(World, t.user_id, t.product_id)
                ELSE World)
    /\ tasks' = tasks \ {t}
    /\ ev' = Ev("need_help", "done", t.user_id)
    /\ UNCHANGED <<adminChat, nextId, blockDone>>

\* ---- forward_to_admin (lines 216-282) -------------------------------------
\* lines 216-217: the message filter; "raise" is the AttributeError of
\* None.startswith, which ends the dispatch of the update
ForwardFilter(f, user_id, p) ==
    IF StrKey(user_id) \notin DOMAIN get_active_dialogs(f) THEN "skip"
    ELSE IF p.photo THEN "pass"
    ELSE IF ~p.text.some THEN "raise"
    ELSE IF StartsWith(p.text.s, <<"/">>) THEN "skip"
    ELSE "pass"

\* lines 232, 247, 263, 279: the branch taken
ForwardBranch(p) ==
    IF p.text.some /\ p.text.s # <<>> THEN "text"
    ELSE IF p.photo THEN "photo"
    ELSE IF p.document THEN "document"
    ELSE "notice"

\* history: the kind of content that arrived
Content(p) ==
    IF p.text.some /\ StartsWith(p.text.s, <<"/">>) THEN "command" ELSE ForwardBranch(p)

\* the message the branch sends to ADMIN_ID
ForwardedMsg(user_name, user_id, product_id, p) ==
    LET head == AdminMessage(user_name, user_id, product_id)
    IN  CASE ForwardBranch(p) = "text" ->
                 ChatMsg("text", Some(head \o p.text.s), user_id)
          [] ForwardBranch(p) = "photo" ->
                 ChatMsg("photo", None, user_id)
          [] ForwardBranch(p) = "document" ->
                 ChatMsg("document", None, user_id)
          [] OTHER ->
                 ChatMsg("notice", Some(UnsupportedNotice(user_name, user_id, product_id)),
                         user_id)

\* variant without the test of line 225
forward_blocked_never(f, user_id) == FALSE

\* line 225: the block test
forward_blocked(f, user_id) == user_id \in get_blocked_users(f)

\* lines 216-242 (250, 265, 280): filter, block test and the send
forward_to_admin(user_id, user_name, p) ==
    /\ CanSuspend
    /\ nextId <= MaxHandle
    /\ UNCHANGED <<file, ACTIVE_DIALOGS, BLOCKED_USERS, blockDone>>
    /\ LET flt == ForwardFilter(file, user_id, p)
           product_id == IF StrKey(user_id) \in DOMAIN get_active_dialogs(file)
                         THEN get_active_dialogs(file)[StrKey(user_id)]
                         ELSE Unknown
       IN  IF flt # "pass"
           THEN /\ ev' = [Ev("forward_to_admin",
                             IF flt = "raise" THEN "fault" ELSE "unhandled", user_id)
                             EXCEPT !.kind = Content(p)]
                /\ UNCHANGED <<adminChat, nextId, tasks>>
           ELSE IF forward_blocked(file, user_id)
           THEN /\ ev' = [Ev("forward_to_admin", "return", user_id)
                             EXCEPT !.kind = Content(p)]
                /\ UNCHANGED <<adminChat, nextId, tasks>>
           ELSE /\ adminChat' = Put(adminChat, nextId,
                                    ForwardedMsg(user_name, user_id, product_id, p))
                /\ nextId' = nextId + 1
                /\ tasks' = tasks \cup
                       {[Task("forward_to_admin", "record", user_id) EXCEPT
                            !.kind = ForwardBranch(p), !.handle = nextId]}
                /\ ev' = [Ev("forward_to_admin", "await", user_id) EXCEPT
                             !.kind = ForwardBranch(p), !.sent = nextId]

\* variant that writes back the record as it was when the handler started
\* (empty), with the new handle
forward_record_stale(w, kind, user_id, handle) ==
    IF kind = "notice" THEN w
    ELSE [w EXCEPT !.file = save_data([load_data(w.file) EXCEPT !.dialog_messages =
                                   Put(@, StrKey(user_id), <<handle>>)])]

\* lines 243, 260, 275: the handle is recorded; line 282: nothing is
forward_record(w, kind, user_id, handle) ==
    IF kind = "notice" THEN w ELSE add_dialog_message(w, user_id, handle)

forward_to_admin_resume(t) ==
    /\ t \in tasks /\ t.h = "forward_to_admin"
    /\ SetWorld(forward_record(World, t.kind, t.user_id, t.handle))
    /\ tasks' = tasks \ {t}
    /\ ev' = [Ev("forward_to_admin", "done", t.user_id) EXCEPT
                 !.kind = t.kind, !.handle = t.handle]
    /\ UNCHANGED <<adminChat, nextId, blockDone>>

\* ---- admin_reply (lines 285-293) ------------------------------------------
\* variant that records the reply (line 291) before it parses the name
admin_reply_run_record_first(w, replied, message_id, body) ==
    LET idPart   == Split1(replied.s, <<"(ID:", " ">>)
        idNum    == IntOfStr(Split0(idPart.s, <<")">>))
        namePart == Split1(replied.s, <<MsgFrom>>)
        failed   == [fault |-> TRUE, parsed |-> FALSE, user_id |-> 0, w |-> w,
                     toUser |-> {}]
    IN  IF ~replied.some THEN failed
        ELSE IF ~idPart.ok THEN failed
        ELSE IF ~idNum.ok THEN failed
        ELSE IF ~namePart.ok \/ ~body.some
        THEN [fault |-> TRUE, parsed |-> TRUE, user_id |-> idNum.n,
              w |-> add_dialog_message(w, idNum.n, message_id), toUser |-> {}]
        ELSE [fault |-> FALSE, parsed |-> TRUE, user_id |-> idNum.n,
              w |-> add_dialog_message(w, idNum.n, message_id),
              toUser |-> {[to |-> idNum.n, text |-> body.s]}]

\* lines 288-292 on the replied-to text, the reply's id and the reply's text
admin_reply_run(w, replied, message_id, body) ==
    LET idPart   == Split1(replied.s, <<"(ID:", " ">>)
        idNum    == IntOfStr(Split0(idPart.s, <<")">>))
        namePart == Split1(replied.s, <<MsgFrom>>)
        failed   == [fault |-> TRUE, parsed |-> FALSE, user_id |-> 0, w |-> w,
                     toUser |-> {}]
    IN  IF ~replied.some THEN failed
        ELSE IF ~idPart.ok THEN failed
        ELSE IF ~idNum.ok THEN failed
        ELSE IF ~namePart.ok THEN failed
        ELSE IF ~body.some
        THEN [fault |-> TRUE, parsed |-> TRUE, user_id |-> idNum.n,
              w |-> add_dialog_message(w, idNum.n, message_id), toUser |-> {}]
        ELSE [fault |-> FALSE, parsed |-> TRUE, user_id |-> idNum.n,
              w |-> add_dialog_message(w, idNum.n, message_id),
              toUser |-> {[to |-> idNum.n, text |-> body.s]}]

\* the operator replies to message h of the chat with body
admin_reply(h, body) ==
    /\ h \in DOMAIN adminChat
    /\ nextId <= MaxHandle
    /\ ForwardFilter(file, ADMIN_ID,
                     [text |-> body, photo |-> FALSE, document |-> FALSE]) = "skip"
    /\ LET run == admin_reply_run(World, adminChat[h].text, nextId, body)
       IN  /\ SetWorld(run.w)
           /\ ev' = [Ev("admin_reply", IF run.fault THEN "fault" ELSE "done",
                        run.user_id) EXCEPT
                        !.src = h, !.handle = nextId, !.toUser = run.toUser,
                        !.kind = IF run.parsed THEN "parsed" ELSE "unparsed"]
    /\ adminChat' = Put(adminChat, nextId, ChatMsg("own", body, 0))
    /\ nextId' = nextId + 1
    /\ UNCHANGED <<tasks, blockDone>>

\* ---- end_dialog, block_user, unblock_user (lines 296-345) -----------------
\* the three buttons hang under every forwarded text, photo and document
HasButtons(user_id) ==
    \E h \in DOMAIN adminChat :
        /\ adminChat[h].kind \in {"text", "photo", "document"}
        /\ adminChat[h].for = user_id

\* lines 299-304: get_chat is awaited before the store is touched, so the
\* handler starts at its read of the record, taken once before the deletions
end_dialog(user_id) ==
    /\ CanSuspend
    /\ HasButtons(user_id)
    /\ LET dialog_messages == get_dialog_messages(file, user_id)
       IN  tasks' = tasks \cup
               {[Task("end_dialog",
                      IF dialog_messages # <<>> THEN "delete" ELSE "finish", user_id)
                    EXCEPT !.todo = dialog_messages, !.snap = dialog_messages]}
    /\ ev' = Ev("end_dialog", "await", user_id)
    /\ UNCHANGED <<file, ACTIVE_DIALOGS, BLOCKED_USERS, adminChat, nextId, blockDone>>

\* line 310, run once the loop is over
end_dialog_clear(w, user_id, rest) ==
    IF rest = <<>> THEN remove_dialog_messages(w, user_id) ELSE w

\* lines 304-310: one delete_message, which succeeds (ok) or raises; a
\* message that is gone cannot be deleted
end_dialog_delete(t, ok) ==
    /\ t \in tasks /\ t.h = "end_dialog" /\ t.pc = "delete"
    /\ ok => Head(t.todo) \in DOMAIN adminChat
    /\ adminChat' = IF ok THEN Del(adminChat, Head(t.todo)) ELSE adminChat
    /\ SetWorld(end_dialog_clear(World, t.user_id, Tail(t.todo)))
    /\ tasks' = (tasks \ {t}) \cup
           {[t EXCEPT !.todo = Tail(t.todo),
                      !.att = Append(t.att, Head(t.todo)),
                      !.pc = IF Tail(t.todo) = <<>> THEN "finish" ELSE "delete"]}
    /\ ev' = Ev("end_dialog", "await", t.user_id)
    /\ UNCHANGED <<nextId, blockDone>>

\* lines 313-314
end_dialog_session(w, user_id) ==
    IF StrKey(user_id) \in DOMAIN get_active_dialogs(w.file)
    THEN remove_active_dialog(w, user_id)
    ELSE w

\* lines 312-319: after the answer, the session goes and the user is told
end_dialog_finish(t) ==
    /\ t \in tasks /\ t.h = "end_dialog" /\ t.pc = "finish"
    /\ SetWorld(end_dialog_session(World, t.user_id))
    /\ tasks' = tasks \ {t}
    /\ ev' = [Ev("end_dialog", "done", t.user_id) EXCEPT
                 !.att = t.att, !.snap = t.snap,
                 !.toUser = {[to |-> t.user_id, text |-> EndText]}]
    /\ UNCHANGED <<adminChat, nextId, blockDone>>

\* lines 328-330
block_user_run(w, user_id) ==
    LET w1 == add_blocked_user(w, user_id)
    IN  IF StrKey(user_id) \in DOMAIN get_active_dialogs(w1.file)
        THEN remove_active_dialog(w1, user_id)
        ELSE w1

\* lines 325-331: the awaits (get_chat, answer) come before any store
\* access, so the handler is one step, taken when they have returned
block_user(user_id) ==
    /\ HasButtons(user_id)
    /\ SetWorld(block_user_run(World, user_id))
    /\ blockDone' = blockDone \cup {user_id}
    /\ ev' = Ev("block_user", "done", user_id)
    /\ UNCHANGED <<adminChat, nextId, tasks>>

\* variant that also drops the user's record of handles
unblock_user_run_clearing(w, user_id) ==
    IF user_id \in get_blocked_users(w.file)
    THEN [w |-> remove_dialog_messages(remove_blocked_user(w, user_id), user_id),
          answer |-> "unblocked"]
    ELSE [w |-> w, answer |-> "was not blocked"]

\* lines 339-345
unblock_user_run(w, user_id) ==
    IF user_id \in get_blocked_users(w.file)
    THEN [w |-> remove_blocked_user(w, user_id), answer |-> "unblocked"]
    ELSE [w |-> w, answer |-> "was not blocked"]

\* lines 337-345: one step, taken when get_chat has returned; the answer
\* is the last call of the handler
unblock_user(user_id) ==
    /\ HasButtons(user_id)
    /\ SetWorld(unblock_user_run(World, user_id).w)
    /\ blockDone' = blockDone \ {user_id}
    /\ ev' = [Ev("unblock_user", "done", user_id) EXCEPT
                 !.answer = unblock_user_run(World, user_id).answer]
    /\ UNCHANGED <<adminChat, nextId, tasks>>

(***************************************************************************)
(* Specifications.  The dispatcher runs handlers as tasks, so an update    *)
(* may be taken while other handlers are suspended.                        *)
(*   Spec     interleaved handlers; one user, plain names, all payloads    *)
(*   SpecSeq  an update is taken only when no handler is suspended; two    *)
(*            users, plain names, text and content no handler takes        *)
(*   SpecTag  as SpecSeq; one user who sends, all names, all payloads      *)
(*   SpecBlock  interleaved need_help, forward_to_admin, block_user and    *)
(*            unblock_user; one user, plain names, all payloads            *)
(***************************************************************************)
HelpDatas == { HelpData(p) : p \in Products } \cup {EndButtonData}
OneUser == {1}
TextPayloads == { TextPayload, CommandPayload, DocumentPayload, OtherPayload }

\* the updates that may arrive, for users U with names N and payloads P
Arrive(U, N, P) ==
    \/ \E u \in U \cup {ADMIN_ID}, d \in HelpDatas : need_help(u, d)
    \/ \E u \in U, n \in N, p \in P : forward_to_admin(u, n, p)
    \/ \E h \in DOMAIN adminChat, b \in ReplyBodies : admin_reply(h, b)
    \/ \E u \in U : end_dialog(u)
    \/ \E u \in U : block_user(u)
    \/ \E u \in U : unblock_user(u)

Resume ==
    \/ \E t \in tasks : need_help_add(t)
    \/ \E t \in tasks : forward_to_admin_resume(t)
    \/ \E t \in tasks, ok \in BOOLEAN : end_dialog_delete(t, ok)
    \/ \E t \in tasks : end_dialog_finish(t)

Next == Arrive(OneUser, PlainNames, Payloads) \/ Resume

Spec == Init /\ [][Next]_vars

NextSeq == (tasks = {} /\ Arrive(Users, PlainNames, TextPayloads)) \/ Resume

SpecSeq == Init /\ [][NextSeq]_vars

NextTag == (tasks = {} /\ Arrive(OneUser, Names, Payloads)) \/ Resume

SpecTag == Init /\ [][NextTag]_vars

NextBlock ==
    \/ \E u \in OneUser \cup {ADMIN_ID}, d \in HelpDatas : need_help(u, d)
    \/ \E u \in OneUser, n \in PlainNames, p \in Payloads : forward_to_admin(u, n, p)
    \/ \E u \in OneUser : block_user(u)
    \/ \E u \in OneUser : unblock_user(u)
    \/ \E t \in tasks : need_help_add(t)
    \/ \E t \in tasks : forward_to_admin_resume(t)

SpecBlock == Init /\ [][NextBlock]_vars

(***************************************************************************)
(* Claims                                                                  *)
(***************************************************************************)
HasSession(f, u) == StrKey(u) \in DOMAIN get_active_dialogs(f)
Ledger(f, u) == get_dialog_messages(f, u)
RelayHandlers == {"need_help", "forward_to_admin", "admin_reply"}

\* C1: an upsert (the add step of need_help) leaves the user with an entry
\* in the Session Store and raises the active-session gauge only when the
\* user had no entry: a run of upserts with no removal raises it once.
C1_UpsertIncrementsOnce ==
    [][(ev'.h = "need_help" /\ ev'.status = "done" /\ ev'.user_id \in Users) =>
          /\ HasSession(file', ev'.user_id)
          /\ ACTIVE_DIALOGS' = ACTIVE_DIALOGS
                 + (IF HasSession(file, ev'.user_id) THEN 0 ELSE 1)]_vars

\* C2: from the completion of block_user for u until unblock_user for u,
\* no step of forward_to_admin for u sends a message to the operator.
C2_BlockedNeverForwarded ==
    (ev.h = "forward_to_admin" /\ ev.user_id \in blockDone) => ev.sent = 0

\* a blocked user holding a session (need_help was past its block test
\* when block_user ran) sends a message, and it is dropped at line 225
C2_Witness ==
    /\ ev.h = "forward_to_admin" /\ ev.status = "return"
    /\ ev.user_id \in blockDone /\ ev.pre.session

\* C3: end_dialog run alone attempts one deletion per handle of the record
\* it found, in order and no other, and ends with the user in neither the
\* Thread Ledger nor the Session Store, whichever deletions failed.
C3_EndSessionCleansUp ==
    (ev.h = "end_dialog" /\ ev.status = "done") =>
        /\ ev.att = ev.snap
        /\ StrKey(ev.user_id) \notin DOMAIN load_data(file).dialog_messages
        /\ ~HasSession(file, ev.user_id)

\* two recorded handles, the first deletion failed (the message is still
\* in the chat), and the user had a session
C3_Witness ==
    /\ ev.h = "end_dialog" /\ ev.status = "done" /\ ev.pre.session
    /\ Len(ev.snap) = 2 /\ ev.snap[1] \in DOMAIN adminChat

\* C4: a reply to the forwarded text of a user who has a session, is not
\* blocked and whose record holds just that forward delivers the reply's
\* text to that user and leaves the record <<forward, reply>>.
C4_RoundTrip ==
    [][(/\ ev'.h = "admin_reply"
        /\ adminChat[ev'.src].kind = "text"
        /\ HasSession(file, adminChat[ev'.src].for)
        /\ adminChat[ev'.src].for \notin get_blocked_users(file)
        /\ Ledger(file, adminChat[ev'.src].for) = <<ev'.src>>) =>
          /\ ev'.toUser = {[to |-> adminChat[ev'.src].for,
                            text |-> adminChat'[ev'.handle].text.s]}
          /\ Ledger(file', adminChat[ev'.src].for) = <<ev'.src, ev'.handle>>]_vars

\* C5: every message (commands left aside) arriving from a user who has a
\* session and is not blocked has one message sent to the operator.
C5_OneForwardPerMessage ==
    (/\ ev.h = "forward_to_admin" /\ ev.status # "done"
     /\ ev.kind # "command" /\ ev.pre.session /\ ~ev.pre.blocked) => ev.sent # 0

\* C6: when forward_to_admin completes, the handle of the message it sent
\* to the operator is in the user's Thread Ledger record.
C6_ForwardRecorded ==
    (ev.h = "forward_to_admin" /\ ev.status = "done") =>
        InList(ev.handle, Ledger(file, ev.user_id))

\* C7: a reply to a message forward_to_admin sent for u is delivered to u
\* and to nobody else.
C7_ReplyReachesSender ==
    (ev.h = "admin_reply" /\ adminChat[ev.src].for # 0) =>
        ev.toUser = {[to |-> adminChat[ev.src].for, text |-> adminChat[ev.handle].text.s]}

\* the tag of line 230 somewhere in the text:
\* "Soobshchenie ot " ... " (ID: " digits ")"
HasWellFormedTag(text) ==
    /\ text.some
    /\ \E i, j, k \in 1..Len(text.s) :
          /\ i < j /\ j + 3 < k
          /\ text.s[i] = MsgFrom
          /\ SubSeq(text.s, j, j + 2) = <<" ", "(ID:", " ">>
          /\ text.s[k] = ")"
          /\ \A m \in (j + 3)..(k - 1) : text.s[m] \in Digit

\* C8: a reply to a message without a well-formed tag raises, and neither
\* the persisted document changes nor is anything sent to a user.
C8_MalformedTagChangesNothing ==
    [][(ev'.h = "admin_reply" /\ ~HasWellFormedTag(adminChat[ev'.src].text)) =>
          /\ ev'.status = "fault"
          /\ file' = file
          /\ ev'.toUser = {}]_vars

\* a reply to the unsupported-content notice: the id is parsed, the name
\* is not
C8_Witness ==
    /\ ev.h = "admin_reply" /\ ev.status = "fault"
    /\ adminChat[ev.src].kind = "notice"

\* C9: a step of need_help, forward_to_admin or admin_reply for a blocked
\* user sends nothing to the user or the operator and appends nothing to
\* the user's record.
C9_BlockedUserNotRelayed ==
    (ev.h \in RelayHandlers /\ ev.pre.blocked) =>
        /\ ev.toUser = {}
        /\ ev.sent = 0
        /\ ~(ev.h = "admin_reply" /\ InList(ev.handle, Ledger(file, ev.user_id)))

NoDuplicates(l) == \A i, j \in 1..Len(l) : l[i] = l[j] => i = j

\* C10: the blocked-users gauge is the length of the Block List, which
\* holds no user twice; block_user on a blocked user changes neither, on
\* another user appends the user and raises the gauge by 1, and on a user
\* with no session leaves the Session Store as it was.
C10_BlockListAndGauge ==
    /\ [](/\ BLOCKED_USERS = Len(load_data(file).blocked_users)
          /\ NoDuplicates(load_data(file).blocked_users))
    /\ [][ev'.h = "block_user" =>
            /\ ev'.user_id \in get_blocked_users(file) =>
                  /\ load_data(file').blocked_users = load_data(file).blocked_users
                  /\ BLOCKED_USERS' = BLOCKED_USERS
            /\ ev'.user_id \notin get_blocked_users(file) =>
                  /\ load_data(file').blocked_users =
                         Append(load_data(file).blocked_users, ev'.user_id)
                  /\ BLOCKED_USERS' = BLOCKED_USERS + 1
            /\ ~HasSession(file, ev'.user_id) =>
                  get_active_dialogs(file') = get_active_dialogs(file)]_vars

\* both users blocked, the second one while holding no session
C10_Witness ==
    /\ ev.h = "block_user" /\ ~ev.pre.session /\ ~ev.pre.blocked
    /\ BLOCKED_USERS = 2

\* C11: unblock_user for a user who is not in the Block List answers "was
\* not blocked" and changes neither the list nor the gauge; for a user in
\* the list it answers "unblocked", removes the user and lowers the gauge
\* by 1.
C11_UnblockOutcomes ==
    [][ev'.h = "unblock_user" =>
          /\ ev'.user_id \notin get_blocked_users(file) =>
                /\ ev'.answer = "was not blocked"
                /\ load_data(file').blocked_users = load_data(file).blocked_users
                /\ BLOCKED_USERS' = BLOCKED_USERS
          /\ ev'.user_id \in get_blocked_users(file) =>
                /\ ev'.answer = "unblocked"
                /\ get_blocked_users(file') = get_blocked_users(file) \ {ev'.user_id}
                /\ Len(load_data(file').blocked_users) =
                       Len(load_data(file).blocked_users) - 1
                /\ BLOCKED_USERS' = BLOCKED_USERS - 1]_vars

\* one of two blocked users has been unblocked
C11_Witness ==
    /\ ev.h = "unblock_user" /\ ev.answer = "unblocked" /\ ev.pre.blocked
    /\ BLOCKED_USERS = 1

(***************************************************************************)
(* The store operations on their own: any of them, with any arguments, in  *)
(* any order.  ev.kind tells whether the argument was in the collection    *)
(* the operation works on when it was called.                              *)
(***************************************************************************)
Handles == 1..MaxHandle

StoreCall(name, user_id, handle, present, w) ==
    /\ SetWorld(w)
    /\ ev' = [Ev(name, "done", user_id) EXCEPT
                 !.handle = handle,
                 !.kind = IF present THEN "present" ELSE "absent"]
    /\ UNCHANGED <<adminChat, nextId, tasks, blockDone>>

call_add_active_dialog(user_id, product_id) ==
    /\ ACTIVE_DIALOGS < MaxGauge
    /\ StoreCall("add_active_dialog", user_id, 0,
                 StrKey(user_id) \in DOMAIN get_active_dialogs(file),
                 add_active_dialog(World, user_id, product_id))

call_remove_active_dialog(user_id) ==
    StoreCall("remove_active_dialog", user_id, 0,
              StrKey(user_id) \in DOMAIN get_active_dialogs(file),
              remove_active_dialog(World, user_id))

call_add_blocked_user(user_id) ==
    StoreCall("add_blocked_user", user_id, 0, user_id \in get_blocked_users(file),
              add_blocked_user(World, user_id))

call_remove_blocked_user(user_id) ==
    StoreCall("remove_blocked_user", user_id, 0, user_id \in get_blocked_users(file),
              remove_blocked_user(World, user_id))

call_add_dialog_message(user_id, message_id) ==
    StoreCall("add_dialog_message", user_id, message_id,
              InList(message_id, get_dialog_messages(file, user_id)),
              add_dialog_message(World, user_id, message_id))

call_remove_dialog_messages(user_id) ==
    StoreCall("remove_dialog_messages", user_id, 0,
              StrKey(user_id) \in DOMAIN load_data(file).dialog_messages,
              remove_dialog_messages(World, user_id))

NextStore ==
    \/ \E u \in Users, p \in Products : call_add_active_dialog(u, p)
    \/ \E u \in Users : call_remove_active_dialog(u)
    \/ \E u \in Users : call_add_blocked_user(u)
    \/ \E u \in Users : call_remove_blocked_user(u)
    \/ \E u \in Users, h \in Handles : call_add_dialog_message(u, h)
    \/ \E u \in Users : call_remove_dialog_messages(u)

SpecStore == Init /\ [][NextStore]_vars

\* C12: no record of the Thread Ledger holds a handle twice;
\* add_dialog_message with a handle the record holds leaves the record as
\* it was, and with another handle puts it behind the handles already
\* there.
C12_LedgerHasNoDuplicates ==
    /\ [](\A k \in DOMAIN load_data(file).dialog_messages :
              NoDuplicates(load_data(file).dialog_messages[k]))
    /\ [][ev'.h = "add_dialog_message" =>
            Ledger(file', ev'.user_id) =
                IF InList(ev'.handle, Ledger(file, ev'.user_id))
                THEN Ledger(file, ev'.user_id)
                ELSE Append(Ledger(file, ev'.user_id), ev'.handle)]_vars

\* the second add of one handle to a record that was empty: length 1
C12_Witness ==
    /\ ev.h = "add_dialog_message" /\ ev.kind = "present"
    /\ Ledger(file, ev.user_id) = <<ev.handle>>

\* C13: need_help called for a user who is then in the Block List, or for
\* the operator, returns with no effect: the document and the gauge are as
\* before, nothing is sent and the handler is not left suspended; and the
\* operator never has an entry in the Session Store.
C13_RejectedStartHelp ==
    /\ [](\A k \in DOMAIN get_active_dialogs(file) : k.n # ADMIN_ID)
    /\ [][(/\ ev'.h = "need_help" /\ ev'.status # "done"
            /\ \/ ev'.user_id \in get_blocked_users(file)
               \/ ev'.user_id = ADMIN_ID) =>
            /\ file' = file
            /\ ACTIVE_DIALOGS' = ACTIVE_DIALOGS
            /\ ev'.toUser = {}
            /\ tasks' = tasks]_vars

\* a blocked user pressed the help button of a product and was turned away
C13_Witness ==
    /\ ev.h = "need_help" /\ ev.status = "return"
    /\ ev.user_id \in Users /\ ev.pre.blocked

\* C14: unblock_user leaves the Session Store, its gauge and the Thread
\* Ledger as they were, so the user it unblocks has a session only if the
\* user had one before; and a message of a user without a session is not
\* forwarded.
C14_UnblockFrame ==
    /\ [][ev'.h = "unblock_user" =>
            /\ get_active_dialogs(file') = get_active_dialogs(file)
            /\ load_data(file').dialog_messages = load_data(file).dialog_messages
            /\ ACTIVE_DIALOGS' = ACTIVE_DIALOGS]_vars
    /\ []((ev.h = "forward_to_admin" /\ ~ev.pre.session) => ev.sent = 0)

\* a user who lost the session to block_user is unblocked: still no
\* session, the record of handles still there, the other user's session
\* still there
C14_Witness ==
    /\ ev.h = "unblock_user" /\ ev.answer = "unblocked"
    /\ ~HasSession(file, ev.user_id)
    /\ Ledger(file, ev.user_id) # <<>>
    /\ \E k \in DOMAIN get_active_dialogs(file) : k.n # ev.user_id

(***************************************************************************)
(* Interleaved handlers that reach every store operation: need_help,       *)
(* forward_to_admin of a text, end_dialog, block_user and unblock_user,    *)
(* one user.                                                               *)
(***************************************************************************)
NextRace ==
    \/ \E u \in OneUser, p \in Products : need_help(u, HelpData(p))
    \/ \E u \in OneUser, n \in PlainNames : forward_to_admin(u, n, TextPayload)
    \/ \E u \in OneUser : end_dialog(u)
    \/ \E u \in OneUser : block_user(u)
    \/ \E u \in OneUser : unblock_user(u)
    \/ Resume

SpecRace == Init /\ [][NextRace]_vars

\* the persisted document, and what each store operation is to make of it
Persisted(f) == IF f.exists THEN f.doc ELSE EmptyDoc

Upserted(d, u) ==
    { [d EXCEPT !.active_dialogs = Put(@, StrKey(u), p)] : p \in Products }
SessionRemoved(d, u) == [d EXCEPT !.active_dialogs = Del(@, StrKey(u))]
BlockAdded(d, u) ==
    IF InList(u, d.blocked_users) THEN d ELSE [d EXCEPT !.blocked_users = Append(@, u)]
BlockRemoved(d, u) ==
    [d EXCEPT !.blocked_users = SelectSeq(@, LAMBDA x : x # u)]
Appended(d, u) ==
    { [d EXCEPT !.dialog_messages =
          Put(@, StrKey(u),
              (IF StrKey(u) \in DOMAIN @ THEN @[StrKey(u)] ELSE <<>>) \o <<h>>)] :
        h \in { x \in Handles :
                   StrKey(u) \in DOMAIN d.dialog_messages =>
                       ~InList(x, d.dialog_messages[StrKey(u)]) } }
Cleared(d, u) == [d EXCEPT !.dialog_messages = Del(@, StrKey(u))]

\* C15: whatever handlers are suspended, every step of a handler leaves
\* the persisted document either as it found it or as its own store
\* operations make it from the document as it is at that step: nothing
\* another handler wrote since this handler started is undone.
C15_StoreOperationsAtomic ==
    [][LET d == Persisted(file)
           e == Persisted(file')
           u == ev'.user_id
       IN  \/ e = d
           \/ ev'.h = "need_help" /\ e \in Upserted(d, u)
           \/ ev'.h = "forward_to_admin" /\ e \in Appended(d, u)
           \/ ev'.h = "end_dialog" /\ e \in {Cleared(d, u), SessionRemoved(d, u)}
           \/ ev'.h = "block_user"
                 /\ e \in {BlockAdded(d, u), SessionRemoved(BlockAdded(d, u), u)}
           \/ ev'.h = "unblock_user" /\ e = BlockRemoved(d, u)]_vars

\* forward_to_admin records its handle while end_dialog for the same user
\* is suspended after its read of the record, and the record keeps the
\* handle recorded before
C15_Witness ==
    /\ ev.h = "forward_to_admin" /\ ev.status = "done"
    /\ Len(Ledger(file, ev.user_id)) = 2
    /\ \E t \in tasks : /\ t.h = "end_dialog" /\ t.user_id = ev.user_id
                         /\ ~InList(ev.handle, t.snap)

\* C16: with forward_to_admin and admin_reply interleaved, every handle
\* that a step of end_dialog removes from the user's record is a handle
\* that this end_dialog has tried to delete.
C16_RemovedHandlesWereAttempted ==
    [][(ev'.h = "end_dialog" /\ Ledger(file', ev'.user_id) # Ledger(file, ev'.user_id)) =>
          \A i \in 1..Len(Ledger(file, ev'.user_id)) :
              \E t \in tasks' :
                  /\ t.h = "end_dialog" /\ t.user_id = ev'.user_id
                  /\ InList(Ledger(file, ev'.user_id)[i], t.att)]_vars

\* C17: when no handler is suspended, no user is both in the Block List
\* and in the Session Store, whatever the interleaving of need_help and
\* block_user was.
C17_NoStaleSession ==
    tasks = {} =>
        \A u \in Users : ~(u \in get_blocked_users(file) /\ HasSession(file, u))

\* C18: when a user who is not blocked presses the control end_dialog
\* offered, need_help takes the press and goes on to create the session.
C18_OfferedControlStartsHelp ==
    (ev.h = "need_help" /\ ev.kind = "offered" /\ ~ev.pre.blocked) =>
        ev.status = "await"

(***************************************************************************)
(* The store operations with failing reads and writes.  A read that fails  *)
(* (lines 73-75) gives the operation the default document, the one it      *)
(* gets when there is no file.  A write that fails (lines 83-84) leaves    *)
(* the file as it was, if open raised, or cut short, if json.dump raised   *)
(* after open had emptied it; a file cut short cannot be parsed, so every  *)
(* later read of it gives the default document, as for no file.  The       *)
(* removals are called while their gauge is positive, and the handle       *)
(* recorded is the next one of the operator's chat.                        *)
(***************************************************************************)
NoFile == [exists |-> FALSE, doc |-> EmptyDoc]
WriteOutcomes == {"ok", "kept", "cut"}
StoreOps == {"add_active_dialog", "remove_active_dialog", "add_blocked_user",
             "remove_blocked_user", "add_dialog_message", "remove_dialog_messages"}

\* what load_data gives the operation
Seen(readOk) == IF readOk THEN World ELSE [World EXCEPT !.file = NoFile]

\* out is what the operation makes of Seen(readOk)
FaultyCall(name, user_id, handle, readOk, write, out) ==
    LET saved == name = "add_active_dialog" \/ out.file # Seen(readOk).file
    IN  /\ ~readOk => file.exists
        /\ write # "ok" => saved
        /\ file' = IF ~saved \/ write = "kept" THEN file
                   ELSE IF write = "cut" THEN NoFile
                   ELSE out.file
        /\ ACTIVE_DIALOGS' = out.ACTIVE_DIALOGS
        /\ BLOCKED_USERS' = out.BLOCKED_USERS
        /\ ev' = [Ev(name, IF readOk /\ write = "ok" THEN "done" ELSE "fault", user_id)
                     EXCEPT !.handle = handle,
                            !.kind = IF ~readOk THEN "read failed"
                                     ELSE IF write # "ok" THEN "write failed"
                                     ELSE "none"]
        /\ UNCHANGED <<adminChat, nextId, tasks, blockDone>>

faulty_add_active_dialog(user_id, product_id, readOk, write) ==
    /\ ACTIVE_DIALOGS < MaxGauge
    /\ FaultyCall("add_active_dialog", user_id, 0, readOk, write,
                  add_active_dialog(Seen(readOk), user_id, product_id))

faulty_remove_active_dialog(user_id, readOk, write) ==
    /\ ACTIVE_DIALOGS > 0
    /\ FaultyCall("remove_active_dialog", user_id, 0, readOk, write,
                  remove_active_dialog(Seen(readOk), user_id))

faulty_add_blocked_user(user_id, readOk, write) ==
    /\ BLOCKED_USERS < MaxGauge
    /\ FaultyCall("add_blocked_user", user_id, 0, readOk, write,
                  add_blocked_user(Seen(readOk), user_id))

faulty_remove_blocked_user(user_id, readOk, write) ==
    /\ BLOCKED_USERS > 0
    /\ FaultyCall("remove_blocked_user", user_id, 0, readOk, write,
                  remove_blocked_user(Seen(readOk), user_id))

faulty_add_dialog_message(user_id, message_id, readOk, write) ==
    FaultyCall("add_dialog_message", user_id, message_id, readOk, write,
               add_dialog_message(Seen(readOk), user_id, message_id))

faulty_remove_dialog_messages(user_id, readOk, write) ==
    FaultyCall("remove_dialog_messages", user_id, 0, readOk, write,
               remove_dialog_messages(Seen(readOk), user_id))

NextFault ==
    \/ \E u \in Users, p \in Products, r \in BOOLEAN, wr \in WriteOutcomes :
           faulty_add_active_dialog(u, p, r, wr)
    \/ \E u \in Users, r \in BOOLEAN, wr \in WriteOutcomes :
           faulty_remove_active_dialog(u, r, wr)
    \/ \E u \in Users, r \in BOOLEAN, wr \in WriteOutcomes :
           faulty_add_blocked_user(u, r, wr)
    \/ \E u \in Users, r \in BOOLEAN, wr \in WriteOutcomes :
           faulty_remove_blocked_user(u, r, wr)
    \/ \E u \in Users, r \in BOOLEAN, wr \in WriteOutcomes :
           faulty_add_dialog_message(u, nextId, r, wr)
    \/ \E u \in Users, r \in BOOLEAN, wr \in WriteOutcomes :
           faulty_remove_dialog_messages(u, r, wr)

SpecFault == Init /\ [][NextFault]_vars

\* every session, block entry and recorded handle of d is in e
KeptIn(d, e) ==
    /\ \A k \in DOMAIN d.active_dialogs :
          k \in DOMAIN e.active_dialogs /\ e.active_dialogs[k] = d.active_dialogs[k]
    /\ \A i \in 1..Len(d.blocked_users) : InList(d.blocked_users[i], e.blocked_users)
    /\ \A k \in DOMAIN d.dialog_messages :
          /\ k \in DOMAIN e.dialog_messages
          /\ \A i \in 1..Len(d.dialog_messages[k]) :
                InList(d.dialog_messages[k][i], e.dialog_messages[k])

\* C19: a store operation whose read or write fails loses at most its own
\* mutation: the sessions, block entries and recorded handles persisted
\* before it are persisted after it.
C19_FailureLosesOnlyTheMutation ==
    [][(ev'.h \in StoreOps /\ ev'.status = "fault") =>
          KeptIn(Persisted(file), Persisted(file'))]_vars

\* C20: when no handler is suspended, a user with no entry in the Session
\* Store has no record in the Thread Ledger.
C20_NoSessionNoRecord ==
    tasks = {} => \A u \in Users : ~HasSession(file, u) => Ledger(file, u) = <<>>

====
